---- MODULE Spec2Model ----
(***************************************************************************)
(* Cart / order / stock / payment workflow of the e-commerce backend.      *)
(*                                                                         *)
(* The store holds products, carts and orders.  Every request              *)
(* handler is an async function: it runs atomically between two awaits on  *)
(* the document store, and other requests may run at each await.  A        *)
(* handler is therefore modelled as a request slot that advances one       *)
(* store operation per step.  A Mongoose document read by a handler is a   *)
(* private copy (field doc of the slot); save() writes back the paths the  *)
(* handler modified ($set) and appends the array elements it pushed        *)
(* ($push), it does not overwrite the paths it left alone.                 *)
(***************************************************************************)
EXTENDS Integers, Sequences, FiniteSets, TLC

VARIABLES
  stock,    \* Product collection: product |-> stock
  catalog,  \* Product collection: product |-> price and isActive
  carts,    \* Cart collection: user |-> the user's cart, or NoCart
  orders,   \* Order collection: the stored documents, in order of creation
  reqs,     \* the requests in flight: slot |-> handler position and locals
  nreq,     \* requests received so far (also the clock of paidAt)
  limit,    \* requests the run serves
  resp      \* the last response sent

vars == <<stock, catalog, carts, orders, reqs, nreq, limit, resp>>

----------------------------------------------------------------------------
(* Bounds of the model *)

MaxRequests == 4       \* requests served in one behaviour
StockRequests == 3     \* requests served in one behaviour of SpecStock
MaxOrders == 2         \* orders the store may hold
MaxItems == 2          \* line items of one order request
MaxQty == 2            \* quantity of one line item
InitStock == 2         \* stock of every product in the initial catalog
PaymentRequests == 6   \* requests served in one behaviour of SpecPayment
RefundRequests == 4    \* requests served in one behaviour of SpecRefund
CheckoutRequests == 3  \* requests served in one behaviour of SpecCheckout
FrozenRequests == 3    \* requests served in one behaviour of SpecFrozen
CartRequests == 3      \* requests served in one behaviour of SpecCart
CapRequests == 3       \* requests served in one behaviour of SpecCap
ValidateRequests == 3  \* requests served in one behaviour of SpecValidate
HistoryRequests == 3   \* requests served in one behaviour of SpecHistory

Products == {"p1", "p2"}
Users == {"u1", "u2"}
Slots == {1, 2}        \* requests that may be in flight at the same time

----------------------------------------------------------------------------
(* Catalog.  Amounts are in thousandths of a rupee: a price is a whole      *)
(* number of paise (the price setter rounds it to 2 decimal places), and    *)
(* 10% of it need not be.                                                   *)

Rupees(n) == n * 1000

Paise(n) == n * 10

\* Math.round(x * 100) / 100 of a non-negative amount
Round2(x) == ((x + 5) \div 10) * 10

Product(price, active) == [price |-> price, isActive |-> active]

\* the catalog of the specifications that do not vary prices
DefaultCatalog ==
  [p \in Products |-> Product(IF p = "p1" THEN Rupees(50) ELSE Rupees(300), TRUE)]

TaxPercent == 10
FreeShippingAbove == 500
FlatShipping == 50
Discount == 0

\* the largest quantity one cart request may name
MaxQuantity == 99

----------------------------------------------------------------------------
(* Order documents *)

Statuses ==
  {"pending", "confirmed", "processing", "shipped", "delivered", "cancelled", "refunded"}

NoRef == <<"none", 0>>
PaymentIntentId(o) == <<"pi", o>>        \* Stripe payment intent of order o
RazorpayOrderId(o) == <<"rzo", o>>       \* Razorpay order of order o
RazorpayPaymentId(o) == <<"rzpay", o>>   \* Razorpay payment of order o

\* a line of the items array of an order request
Item(p, q) == [product |-> p, quantity |-> q]

ItemLists ==
  UNION {[1..n -> {Item(p, q) : p \in Products, q \in 1..MaxQty}] : n \in 0..MaxItems}

\* a line of an order, built by createOrder from the product it read
OrderItem(p, q, price) ==
  [product |-> p, productName |-> p, quantity |-> q, price |-> price,
   total |-> price * q]

RECURSIVE SumSeq(_)
SumSeq(s) == IF s = <<>> THEN 0 ELSE Head(s) + SumSeq(Tail(s))

\* quantity of product p over the lines of an item list
QtyOf(items, p) ==
  SumSeq([k \in 1..Len(items) |->
            IF items[k].product = p THEN items[k].quantity ELSE 0])

\* subtotal += itemTotal over the lines
Subtotal(lines) == SumSeq([k \in 1..Len(lines) |-> lines[k].total])

Tax(subtotal) == (subtotal * TaxPercent) \div 100

\* free shipping from the threshold on, instead of above it
ShippingCostFrom(subtotal) ==
  IF subtotal >= Rupees(FreeShippingAbove) THEN 0 ELSE Rupees(FlatShipping)

ShippingCost(subtotal) ==
  IF subtotal > Rupees(FreeShippingAbove) THEN 0 ELSE Rupees(FlatShipping)

TotalAmount(subtotal) ==
  subtotal + Tax(subtotal) + ShippingCost(subtotal) - Discount

HistoryEntry(status, note) == [status |-> status, note |-> note]

\* Order.create: the document built by createOrder, after the pre-save hook
NewOrder(user, lines) ==
  [ user |-> user,
    items |-> lines,
    subtotal |-> Subtotal(lines),
    tax |-> Tax(Subtotal(lines)),
    shippingCost |-> ShippingCost(Subtotal(lines)),
    discount |-> Discount,
    totalAmount |-> TotalAmount(Subtotal(lines)),
    status |-> "pending",
    statusHistory |-> <<HistoryEntry("pending", "Order created")>>,
    cancelledAt |-> FALSE,
    deliveredAt |-> FALSE,
    trackingNumber |-> FALSE,
    paymentInfo |-> [ status |-> "pending",
                      transactionId |-> NoRef,
                      paymentIntentId |-> NoRef,
                      amount |-> TotalAmount(Subtotal(lines)),
                      paidAt |-> 0,
                      refundAmount |-> 0 ] ]

NoOrder ==
  [ user |-> "", items |-> <<>>, subtotal |-> 0, tax |-> 0, shippingCost |-> 0,
    discount |-> 0, totalAmount |-> 0, status |-> "none", statusHistory |-> <<>>,
    cancelledAt |-> FALSE, deliveredAt |-> FALSE, trackingNumber |-> FALSE,
    paymentInfo |-> [ status |-> "none", transactionId |-> NoRef,
                      paymentIntentId |-> NoRef, amount |-> 0, paidAt |-> 0,
                      refundAmount |-> 0 ] ]

OrderIds == 1..Len(orders)

----------------------------------------------------------------------------
(* Document methods of the Order model: they change the handler's copy *)

\* a status update that also recomputes the total, from the subtotal alone
updateStatusRetotal(doc, newStatus, note) ==
  IF doc.status = newStatus THEN doc
  ELSE [doc EXCEPT
          !.status = newStatus,
          !.totalAmount = doc.subtotal,
          !.statusHistory = Append(@, HistoryEntry(newStatus,
              IF note # "" THEN note
              ELSE "Status changed from " \o doc.status \o " to " \o newStatus)),
          !.deliveredAt = IF newStatus = "delivered" THEN TRUE ELSE @,
          !.cancelledAt = IF newStatus = "cancelled" THEN TRUE ELSE @]

\* orderSchema.methods.updateStatus, up to its save()
updateStatus(doc, newStatus, note) ==
  IF doc.status = newStatus THEN doc
  ELSE [doc EXCEPT
          !.status = newStatus,
          !.statusHistory = Append(@, HistoryEntry(newStatus,
              IF note # "" THEN note
              ELSE "Status changed from " \o doc.status \o " to " \o newStatus)),
          !.deliveredAt = IF newStatus = "delivered" THEN TRUE ELSE @,
          !.cancelledAt = IF newStatus = "cancelled" THEN TRUE ELSE @]

\* an auto-confirmation that sets the status without a history entry
updatePaymentStatusSilent(doc, status, transactionId, paidAt) ==
  LET d1 == [doc EXCEPT !.paymentInfo.status = status,
                        !.paymentInfo.transactionId =
                            IF transactionId # NoRef THEN transactionId ELSE @]
  IN  IF status = "completed" /\ d1.paymentInfo.paidAt = 0
      THEN LET d2 == [d1 EXCEPT !.paymentInfo.paidAt = paidAt]
           IN  IF d2.status = "pending" THEN [d2 EXCEPT !.status = "confirmed"] ELSE d2
      ELSE d1

\* orderSchema.methods.updatePaymentStatus, up to its save()
updatePaymentStatus(doc, status, transactionId, paidAt) ==
  LET d1 == [doc EXCEPT !.paymentInfo.status = status,
                        !.paymentInfo.transactionId =
                            IF transactionId # NoRef THEN transactionId ELSE @]
  IN  IF status = "completed" /\ d1.paymentInfo.paidAt = 0
      THEN LET d2 == [d1 EXCEPT !.paymentInfo.paidAt = paidAt]
           IN  IF d2.status = "pending"
               THEN updateStatus(d2, "confirmed", "Payment completed")
               ELSE d2
      ELSE d1

\* a cancellation that marks a completed payment refunded and records no amount
cancelOrderDocNoAmount(doc, reason) ==
  LET d1 == [doc EXCEPT
               !.status = "cancelled",
               !.cancelledAt = TRUE,
               !.statusHistory = Append(@, HistoryEntry("cancelled",
                   IF reason # "" THEN reason ELSE "Order cancelled"))]
  IN  IF doc.paymentInfo.status = "completed"
      THEN [d1 EXCEPT !.paymentInfo.status = "refunded"]
      ELSE d1

\* orderSchema.methods.cancelOrder, up to its save() (the status it refuses
\* is refused by the controller before it is called)
cancelOrderDoc(doc, reason) ==
  LET d1 == [doc EXCEPT
               !.status = "cancelled",
               !.cancelledAt = TRUE,
               !.statusHistory = Append(@, HistoryEntry("cancelled",
                   IF reason # "" THEN reason ELSE "Order cancelled"))]
  IN  IF doc.paymentInfo.status = "completed"
      THEN [d1 EXCEPT !.paymentInfo.status = "refunded",
                      !.paymentInfo.refundAmount = doc.paymentInfo.amount]
      ELSE d1

\* document.save(): the stored document after writing the changes a handler
\* made to its copy (read as `old`, now `new`) over the stored one
SaveDoc(stored, old, new) ==
  [ f \in DOMAIN stored |->
      IF f = "statusHistory"
      THEN stored.statusHistory \o
             SubSeq(new.statusHistory, Len(old.statusHistory) + 1, Len(new.statusHistory))
      ELSE IF f = "paymentInfo"
      THEN [ g \in DOMAIN stored.paymentInfo |->
               IF new.paymentInfo[g] # old.paymentInfo[g]
               THEN new.paymentInfo[g] ELSE stored.paymentInfo[g] ]
      ELSE IF new[f] # old[f] THEN new[f] ELSE stored[f] ]

----------------------------------------------------------------------------
(* Cart documents *)

\* the product path of a cart line: the id, or after populate() the product document
Ref(p) == [_id |-> p, populated |-> FALSE]

CartItem(ref, q, price) == [product |-> ref, quantity |-> q, price |-> price]

NoCart == [exists |-> FALSE, items |-> <<>>, totalAmount |-> 0, totalItems |-> 0, v |-> 0]

\* new Cart({user, items: []})
EmptyCart == [NoCart EXCEPT !.exists = TRUE]

\* item.product.toString(): the id of an ObjectId, the inspect() text of a
\* populated product document
toString(ref) == IF ref.populated THEN "{ _id: " \o ref._id \o " }" ELSE ref._id

\* findIndex(item => item.product.toString() === productId.toString()), 0 for -1
findIndex(items, productId) ==
  LET hits == {k \in 1..Len(items) : toString(items[k].product) = productId}
  IN  IF hits = {} THEN 0 ELSE CHOOSE k \in hits : \A h \in hits : k <= h

\* .populate('items.product', ...) on the document read
populate(cart) ==
  [cart EXCEPT !.items = [k \in 1..Len(cart.items) |->
                            [cart.items[k] EXCEPT !.product.populated = TRUE]]]

\* the items array as cast for the store: product documents become their ids
depopulate(items) ==
  [k \in 1..Len(items) |-> [items[k] EXCEPT !.product.populated = FALSE]]

\* Cart.findByUser(userId), for a cart that exists
findByUser(u) == populate(carts[u])

\* cartSchema.methods.calculateTotals
calculateTotals(cart) ==
  [cart EXCEPT
     !.totalItems = SumSeq([k \in 1..Len(cart.items) |-> cart.items[k].quantity]),
     !.totalAmount = Round2(SumSeq([k \in 1..Len(cart.items) |->
                               cart.items[k].price * cart.items[k].quantity]))]

\* cartSchema.methods.addItem, up to its save()
addItem(cart, productId, quantity, price) ==
  LET k == findIndex(cart.items, productId)
  IN  calculateTotals(
        IF k > 0
        THEN [cart EXCEPT !.items[k].quantity = @ + quantity, !.items[k].price = price]
        ELSE [cart EXCEPT !.items = Append(@, CartItem(Ref(productId), quantity, price))])

\* remove the k-th line: this.items.splice(k, 1)
splice(items, k) ==
  [j \in 1..(Len(items) - 1) |-> IF j < k THEN items[j] ELSE items[j + 1]]

\* cartSchema.methods.updateItemQuantity on the line found, up to its save()
updateItemQuantity(cart, k, quantity) ==
  calculateTotals(
    IF quantity <= 0 THEN [cart EXCEPT !.items = splice(@, k)]
    ELSE [cart EXCEPT !.items[k].quantity = quantity])

\* cartSchema.methods.removeItem on the line found, up to its save()
removeItem(cart, k) == calculateTotals([cart EXCEPT !.items = splice(@, k)])

\* a clearCart that leaves the cart as it is
clearCartDocKeep(cart) == cart

\* cartSchema.methods.clearCart, up to its save()
clearCartDoc(cart) == [cart EXCEPT !.items = <<>>, !.totalAmount = 0, !.totalItems = 0]

\* how save() writes the items array: appended lines go as $push, changed
\* fields of existing lines as positional $set, anything else as $set of the array
ItemsDelta(old, new) ==
  IF new.items = old.items THEN "none"
  ELSE IF Len(new.items) > Len(old.items)
          /\ SubSeq(new.items, 1, Len(old.items)) = old.items THEN "push"
  ELSE IF Len(new.items) = Len(old.items) THEN "positional"
  ELSE "set"

\* a positional $set and a $set of the array carry the version read in their
\* filter: the save fails with VersionError when the stored version moved on
VersionError(stored, old, new) ==
  ItemsDelta(old, new) \in {"positional", "set"} /\ stored.v # old.v

\* document.save() of a loaded cart: the stored cart after writing the changes
\* a handler made to its copy (read as `old`, now `new`); the pre-save hook
\* has recomputed the totals of the copy
SaveCart(stored, old, new0) ==
  LET new == calculateTotals(new0)
      delta == ItemsDelta(old, new)
  IN  [ exists |-> TRUE,
        items |->
          IF delta = "push"
          THEN stored.items \o SubSeq(new.items, Len(old.items) + 1, Len(new.items))
          ELSE IF delta = "positional"
          THEN [k \in 1..Len(stored.items) |->
                  IF k <= Len(new.items) /\ new.items[k] # old.items[k]
                  THEN [stored.items[k] EXCEPT !.quantity = new.items[k].quantity,
                                               !.price = new.items[k].price]
                  ELSE stored.items[k]]
          ELSE IF delta = "set" THEN depopulate(new.items)
          ELSE stored.items,
        totalAmount |-> IF new.totalAmount # old.totalAmount
                        THEN new.totalAmount ELSE stored.totalAmount,
        totalItems |-> IF new.totalItems # old.totalItems
                       THEN new.totalItems ELSE stored.totalItems,
        v |-> IF delta \in {"push", "set"} THEN stored.v + 1 ELSE stored.v ]

----------------------------------------------------------------------------
(* Request slots *)

NoProduct == [price |-> 0, isActive |-> FALSE, stock |-> 0]

Idle ==
  [ op |-> "none", pc |-> "idle", user |-> "", o |-> 0, target |-> "", ref |-> NoRef,
    ref2 |-> NoRef, items |-> <<>>, lines |-> <<>>, i |-> 0, doc |-> NoOrder,
    cart |-> NoCart, product |-> NoProduct, errors |-> 0 ]

Busy(s) == reqs[s].op # "none"

\* a request is accepted into the lowest free slot
FreeSlot(s) ==
  /\ ~Busy(s)
  /\ \A t \in Slots : t < s => Busy(t)
  /\ nreq < limit

\* the last response sent: the operation, the order it acted on, the status
\* the request named (for a payment request: what the provider reported,
\* "succeeded" or "failed"), the provider reference it named, and the outcome
Response(op, o, target, ref, result) ==
  [op |-> op, o |-> o, target |-> target, ref |-> ref, result |-> result]

Reply(op, o, target, ref, result) == resp' = Response(op, o, target, ref, result)

\* the store after deployment: the products, no carts, no orders, nothing in flight
InitStore ==
  /\ stock = [p \in Products |-> InitStock]
  /\ carts = [u \in Users |-> NoCart]
  /\ orders = <<>>
  /\ reqs = [s \in Slots |-> Idle]
  /\ nreq = 0
  /\ resp = Response("none", 0, "", NoRef, "none")

----------------------------------------------------------------------------
(* createOrder *)

\* Product.findById: the product document read, for a product that exists
findById(p) == [price |-> catalog[p].price, isActive |-> catalog[p].isActive,
                stock |-> stock[p]]

\* the checks createOrder makes on one line item against the product it read
ItemCheck(item) ==
  IF item.product \notin Products THEN "NotFoundError"
  ELSE IF ~findById(item.product).isActive THEN "ValidationError"
  ELSE IF findById(item.product).stock < item.quantity THEN "InsufficientStockError"
  ELSE "ok"

CreatesInFlight == Cardinality({s \in Slots : reqs[s].op = "createOrder"})

\* request of user u arrives; an empty item list is refused before any store access
CreateOrderStart(s, u, items) ==
  /\ FreeSlot(s)
  /\ Len(orders) + CreatesInFlight < MaxOrders
  /\ nreq' = nreq + 1
  /\ IF Len(items) = 0
     THEN /\ Reply("createOrder", 0, "", NoRef, "ValidationError")
          /\ UNCHANGED <<catalog, carts, stock, orders, reqs, limit>>
     ELSE /\ reqs' = [reqs EXCEPT ![s] =
                 [Idle EXCEPT !.op = "createOrder", !.pc = "check", !.user = u,
                              !.items = items, !.i = 1]]
          /\ UNCHANGED <<catalog, carts, stock, orders, resp, limit>>

\* a validation loop that reserves the stock of each line as it passes
CreateOrderCheckReserving(s) ==
  /\ reqs[s].op = "createOrder" /\ reqs[s].pc = "check"
  /\ LET r == reqs[s]
         item == r.items[r.i]
         res == ItemCheck(item)
     IN  IF res # "ok"
         THEN /\ reqs' = [reqs EXCEPT ![s] = Idle]
              /\ Reply("createOrder", 0, "", NoRef, res)
              /\ UNCHANGED stock
         ELSE /\ reqs' = [reqs EXCEPT ![s] =
                     [r EXCEPT !.lines = Append(@, OrderItem(item.product, item.quantity,
                                                     findById(item.product).price)),
                               !.pc = IF r.i < Len(r.items) THEN "check" ELSE "create",
                               !.i = IF r.i < Len(r.items) THEN r.i + 1 ELSE 0]]
              /\ stock' = [stock EXCEPT ![item.product] = @ - item.quantity]
              /\ UNCHANGED resp
  /\ UNCHANGED <<catalog, carts, orders, nreq, limit>>

\* one pass of the validation loop: Product.findById, the three checks, and the
\* order line built from the product read
CreateOrderCheck(s) ==
  /\ reqs[s].op = "createOrder" /\ reqs[s].pc = "check"
  /\ LET r == reqs[s]
         item == r.items[r.i]
         res == ItemCheck(item)
     IN  IF res # "ok"
         THEN /\ reqs' = [reqs EXCEPT ![s] = Idle]
              /\ Reply("createOrder", 0, "", NoRef, res)
         ELSE /\ reqs' = [reqs EXCEPT ![s] =
                     [r EXCEPT !.lines = Append(@, OrderItem(item.product, item.quantity,
                                                     findById(item.product).price)),
                               !.pc = IF r.i < Len(r.items) THEN "check" ELSE "create",
                               !.i = IF r.i < Len(r.items) THEN r.i + 1 ELSE 0]]
              /\ UNCHANGED resp
  /\ UNCHANGED <<catalog, carts, stock, orders, nreq, limit>>

\* Order.create
CreateOrderInsert(s) ==
  /\ reqs[s].op = "createOrder" /\ reqs[s].pc = "create"
  /\ orders' = Append(orders, NewOrder(reqs[s].user, reqs[s].lines))
  /\ reqs' = [reqs EXCEPT ![s] = [@ EXCEPT !.pc = "decrement", !.i = 1,
                                           !.o = Len(orders) + 1]]
  /\ UNCHANGED <<catalog, carts, stock, nreq, resp, limit>>

\* Product.findByIdAndUpdate(item.product, {$inc: {stock: -item.quantity}})
DecrementStock(st, item) ==
  [st EXCEPT ![item.product] = @ - item.quantity]

\* one pass of the stock update loop
CreateOrderDecrement(s) ==
  /\ reqs[s].op = "createOrder" /\ reqs[s].pc = "decrement"
  /\ LET r == reqs[s]
     IN  /\ stock' = DecrementStock(stock, r.items[r.i])
         /\ reqs' = [reqs EXCEPT ![s] =
                IF r.i < Len(r.items) THEN [r EXCEPT !.i = r.i + 1]
                ELSE [r EXCEPT !.pc = "findCart", !.i = 0]]
  /\ UNCHANGED <<catalog, carts, orders, nreq, resp, limit>>

\* Cart.findByUser(req.user._id); without a cart the response follows
CreateOrderFindCart(s) ==
  /\ reqs[s].op = "createOrder" /\ reqs[s].pc = "findCart"
  /\ LET r == reqs[s]
     IN  IF carts[r.user].exists
         THEN /\ reqs' = [reqs EXCEPT ![s] =
                     [r EXCEPT !.pc = "clearCart", !.cart = findByUser(r.user)]]
              /\ UNCHANGED resp
         ELSE /\ reqs' = [reqs EXCEPT ![s] = Idle]
              /\ Reply("createOrder", r.o, "", NoRef, "created")
  /\ UNCHANGED <<catalog, carts, stock, orders, nreq, limit>>

\* cart.clearCart(): the save, and the response
CreateOrderClearCart(s) ==
  /\ reqs[s].op = "createOrder" /\ reqs[s].pc = "clearCart"
  /\ LET r == reqs[s]
         new == clearCartDoc(r.cart)
     IN  IF VersionError(carts[r.user], r.cart, new)
         THEN /\ Reply("createOrder", r.o, "", NoRef, "VersionError")
              /\ UNCHANGED carts
         ELSE /\ carts' = [carts EXCEPT ![r.user] = SaveCart(@, r.cart, new)]
              /\ Reply("createOrder", r.o, "", NoRef, "created")
  /\ reqs' = [reqs EXCEPT ![s] = Idle]
  /\ UNCHANGED <<catalog, stock, orders, nreq, limit>>

----------------------------------------------------------------------------
(* updateOrderStatus (admin) *)

\* the table with one forbidden target left out
invalidTransitionsShort(from) ==
  CASE from = "delivered" -> {"pending", "confirmed", "processing"}
    [] from = "cancelled" -> {"delivered"}
    [] from = "refunded" -> {"pending", "confirmed", "processing"}
    [] OTHER -> {}

invalidTransitions(from) ==
  CASE from = "delivered" -> {"pending", "confirmed", "processing"}
    [] from = "cancelled" -> {"delivered", "shipped"}
    [] from = "refunded" -> {"pending", "confirmed", "processing"}
    [] OTHER -> {}

\* Order.findById and the transition check; a refused or same-status update
\* ends here, any other goes on to save (the request carries no note)
UpdateOrderStatusRead(s, o, status) ==
  /\ FreeSlot(s)
  /\ o \in OrderIds /\ status \in Statuses
  /\ nreq' = nreq + 1
  /\ LET doc == orders[o]
     IN  IF status \in invalidTransitions(doc.status)
         THEN /\ Reply("updateOrderStatus", o, status, NoRef, "ValidationError")
              /\ UNCHANGED reqs
         ELSE IF updateStatus(doc, status, "") = doc
         THEN /\ Reply("updateOrderStatus", o, status, NoRef, "ok")
              /\ UNCHANGED reqs
         ELSE /\ reqs' = [reqs EXCEPT ![s] =
                     [Idle EXCEPT !.op = "updateOrderStatus", !.pc = "save",
                                  !.o = o, !.target = status, !.doc = doc]]
              /\ UNCHANGED resp
  /\ UNCHANGED <<catalog, carts, stock, orders, limit>>

\* order.updateStatus(status, note): the save
UpdateOrderStatusSave(s) ==
  /\ reqs[s].op = "updateOrderStatus" /\ reqs[s].pc = "save"
  /\ LET r == reqs[s]
     IN  /\ orders' = [orders EXCEPT ![r.o] =
                SaveDoc(@, r.doc, updateStatus(r.doc, r.target, ""))]
         /\ Reply("updateOrderStatus", r.o, r.target, NoRef, "ok")
  /\ reqs' = [reqs EXCEPT ![s] = Idle]
  /\ UNCHANGED <<catalog, carts, stock, nreq, limit>>

----------------------------------------------------------------------------
(* cancelOrder *)

\* the list with delivered left out
nonCancellableStatusesShort == {"cancelled", "refunded", "shipped"}

nonCancellableStatuses == {"delivered", "cancelled", "refunded", "shipped"}

\* Order.findById and the checks before order.cancelOrder (the caller is the
\* owner of the order or an admin)
CancelOrderRead(s, o) ==
  /\ FreeSlot(s)
  /\ o \in OrderIds
  /\ nreq' = nreq + 1
  /\ LET doc == orders[o]
     IN  IF doc.status \in nonCancellableStatuses
         THEN /\ Reply("cancelOrder", o, "", NoRef, "ValidationError")
              /\ UNCHANGED reqs
         ELSE /\ reqs' = [reqs EXCEPT ![s] =
                     [Idle EXCEPT !.op = "cancelOrder", !.pc = "save",
                                  !.o = o, !.doc = doc]]
              /\ UNCHANGED resp
  /\ UNCHANGED <<catalog, carts, stock, orders, limit>>

\* order.cancelOrder(reason): the save
CancelOrderSave(s) ==
  /\ reqs[s].op = "cancelOrder" /\ reqs[s].pc = "save"
  /\ LET r == reqs[s]
         new == cancelOrderDoc(r.doc, "")
     IN  /\ orders' = [orders EXCEPT ![r.o] = SaveDoc(@, r.doc, new)]
         /\ reqs' = [reqs EXCEPT ![s] =
                [r EXCEPT !.pc = "restore", !.i = 1, !.items = new.items]]
  /\ UNCHANGED <<catalog, carts, stock, nreq, resp, limit>>

\* a restore that adds one unit per line instead of the line's quantity
RestoreStockUnit(st, item) ==
  [st EXCEPT ![item.product] = @ + 1]

\* Product.findByIdAndUpdate(item.product, {$inc: {stock: item.quantity}})
RestoreStock(st, item) ==
  [st EXCEPT ![item.product] = @ + item.quantity]

\* one pass of the stock restore loop; the response follows the last pass
CancelOrderRestore(s) ==
  /\ reqs[s].op = "cancelOrder" /\ reqs[s].pc = "restore"
  /\ LET r == reqs[s]
     IN  /\ stock' = RestoreStock(stock, r.items[r.i])
         /\ IF r.i < Len(r.items)
            THEN /\ reqs' = [reqs EXCEPT ![s] = [r EXCEPT !.i = r.i + 1]]
                 /\ UNCHANGED resp
            ELSE /\ reqs' = [reqs EXCEPT ![s] = Idle]
                 /\ Reply("cancelOrder", r.o, "", NoRef, "ok")
  /\ UNCHANGED <<catalog, carts, orders, nreq, limit>>

----------------------------------------------------------------------------

(* addTrackingNumber (admin) *)

\* Order.findById; the tracking number is set on the handler's copy
AddTrackingNumberRead(s, o) ==
  /\ FreeSlot(s)
  /\ o \in OrderIds
  /\ nreq' = nreq + 1
  /\ reqs' = [reqs EXCEPT ![s] =
        [Idle EXCEPT !.op = "addTrackingNumber", !.pc = "save", !.o = o,
                     !.doc = orders[o]]]
  /\ UNCHANGED <<catalog, carts, stock, orders, resp, limit>>

\* processing and confirmed orders become shipped; the save
AddTrackingNumberSave(s) ==
  /\ reqs[s].op = "addTrackingNumber" /\ reqs[s].pc = "save"
  /\ LET r == reqs[s]
         tracked == [r.doc EXCEPT !.trackingNumber = TRUE]
         new == IF r.doc.status \in {"processing", "confirmed"}
                THEN updateStatus(tracked, "shipped", "Tracking number added")
                ELSE tracked
     IN  /\ orders' = [orders EXCEPT ![r.o] = SaveDoc(@, r.doc, new)]
         /\ Reply("addTrackingNumber", r.o, "", NoRef, "ok")
  /\ reqs' = [reqs EXCEPT ![s] = Idle]
  /\ UNCHANGED <<catalog, carts, stock, nreq, limit>>

----------------------------------------------------------------------------
(* Payments *)

\* Order.findOne({'paymentInfo.<field>': ref}): the first order that matches, or 0
FindByRef(field, ref) ==
  LET hits == {o \in OrderIds : orders[o].paymentInfo[field] = ref}
  IN  IF hits = {} THEN 0 ELSE CHOOSE o \in hits : \A h \in hits : o <= h

\* the checks of createStripePaymentIntent and createRazorpayOrder on the order read
PayableCheck(doc, amount) ==
  IF doc.paymentInfo.status = "completed" THEN "ValidationError"
  ELSE IF amount # doc.totalAmount THEN "ValidationError"
  ELSE "ok"

\* read and checks of a handler that opens a payment with a provider
OpenPaymentRead(s, op, o, amount) ==
  /\ FreeSlot(s)
  /\ o \in OrderIds
  /\ nreq' = nreq + 1
  /\ IF PayableCheck(orders[o], amount) # "ok"
     THEN /\ Reply(op, o, "", NoRef, PayableCheck(orders[o], amount))
          /\ UNCHANGED reqs
     ELSE /\ reqs' = [reqs EXCEPT ![s] =
                 [Idle EXCEPT !.op = op, !.pc = "save", !.o = o, !.doc = orders[o]]]
          /\ UNCHANGED resp
  /\ UNCHANGED <<catalog, carts, stock, orders, limit>>

CreateStripePaymentIntentRead(s, o, amount) ==
  OpenPaymentRead(s, "createStripePaymentIntent", o, amount)

\* order.paymentInfo.paymentIntentId = paymentIntent.id; order.save()
CreateStripePaymentIntentSave(s) ==
  /\ reqs[s].op = "createStripePaymentIntent" /\ reqs[s].pc = "save"
  /\ LET r == reqs[s]
         new == [r.doc EXCEPT !.paymentInfo.paymentIntentId = PaymentIntentId(r.o)]
     IN  /\ orders' = [orders EXCEPT ![r.o] = SaveDoc(@, r.doc, new)]
         /\ Reply("createStripePaymentIntent", r.o, "", NoRef, "ok")
  /\ reqs' = [reqs EXCEPT ![s] = Idle]
  /\ UNCHANGED <<catalog, carts, stock, nreq, limit>>

CreateRazorpayOrderRead(s, o, amount) ==
  OpenPaymentRead(s, "createRazorpayOrder", o, amount)

\* order.paymentInfo.transactionId = razorpayOrder.id; order.save()
CreateRazorpayOrderSave(s) ==
  /\ reqs[s].op = "createRazorpayOrder" /\ reqs[s].pc = "save"
  /\ LET r == reqs[s]
         new == [r.doc EXCEPT !.paymentInfo.transactionId = RazorpayOrderId(r.o)]
     IN  /\ orders' = [orders EXCEPT ![r.o] = SaveDoc(@, r.doc, new)]
         /\ Reply("createRazorpayOrder", r.o, "", NoRef, "ok")
  /\ reqs' = [reqs EXCEPT ![s] = Idle]
  /\ UNCHANGED <<catalog, carts, stock, nreq, limit>>

\* a handler found its order and goes on to order.updatePaymentStatus(status, txn, paidAt)
PaymentSlot(op, o, ref, status, txn, clock) ==
  [Idle EXCEPT !.op = op, !.pc = "save", !.o = o, !.ref = ref, !.target = status,
               !.ref2 = txn, !.i = clock, !.doc = orders[o]]

\* order.updatePaymentStatus(...): the save, and the handler's response
UpdatePaymentStatusSave(s, op, result) ==
  /\ reqs[s].op = op /\ reqs[s].pc = "save"
  /\ LET r == reqs[s]
         new == updatePaymentStatus(r.doc, r.target, r.ref2, r.i)
     IN  /\ orders' = [orders EXCEPT ![r.o] = SaveDoc(@, r.doc, new)]
         /\ Reply(op, r.o, IF r.target = "completed" THEN "succeeded" ELSE "failed", r.ref, result)
  /\ reqs' = [reqs EXCEPT ![s] = Idle]
  /\ UNCHANGED <<catalog, carts, stock, nreq, limit>>

\* confirmStripePayment: the intent is retrieved from Stripe (succeeded or
\* not), then the order is looked up by the intent id
ConfirmStripePaymentFind(s, ref, succeeded) ==
  /\ FreeSlot(s)
  /\ nreq' = nreq + 1
  /\ LET o == FindByRef("paymentIntentId", ref)
     IN  IF ~succeeded \/ o = 0
         THEN /\ Reply("confirmStripePayment", o, IF succeeded THEN "succeeded" ELSE "failed", ref,
                       "PaymentError")
              /\ UNCHANGED reqs
         ELSE /\ reqs' = [reqs EXCEPT ![s] =
                     PaymentSlot("confirmStripePayment", o, ref, "completed", ref, nreq + 1)]
              /\ UNCHANGED resp
  /\ UNCHANGED <<catalog, carts, stock, orders, limit>>

ConfirmStripePaymentSave(s) == UpdatePaymentStatusSave(s, "confirmStripePayment", "ok")

\* verifyRazorpayPayment: the order is looked up by the Razorpay order id,
\* then the payment is fetched from Razorpay (captured or not)
VerifyRazorpayPaymentFind(s, orderRef, paymentRef, captured) ==
  /\ FreeSlot(s)
  /\ nreq' = nreq + 1
  /\ LET o == FindByRef("transactionId", orderRef)
     IN  IF o = 0 \/ ~captured
         THEN /\ Reply("verifyRazorpayPayment", o, IF captured THEN "succeeded" ELSE "failed",
                       orderRef, "PaymentError")
              /\ UNCHANGED reqs
         ELSE /\ reqs' = [reqs EXCEPT ![s] =
                     PaymentSlot("verifyRazorpayPayment", o, orderRef, "completed", paymentRef, nreq + 1)]
              /\ UNCHANGED resp
  /\ UNCHANGED <<catalog, carts, stock, orders, limit>>

VerifyRazorpayPaymentSave(s) == UpdatePaymentStatusSave(s, "verifyRazorpayPayment", "ok")

\* a webhook helper that marks the payment completed: it acts when the
\* order exists and is not yet paid, and the webhook answers "received" anyway
PaymentSuccessFind(s, op, field, ref, txn) ==
  /\ FreeSlot(s)
  /\ nreq' = nreq + 1
  /\ LET o == FindByRef(field, ref)
     IN  IF o # 0 /\ orders[o].paymentInfo.status # "completed"
         THEN /\ reqs' = [reqs EXCEPT ![s] = PaymentSlot(op, o, ref, "completed", txn, nreq + 1)]
              /\ UNCHANGED resp
         ELSE /\ Reply(op, o, "succeeded", ref, "received")
              /\ UNCHANGED reqs
  /\ UNCHANGED <<catalog, carts, stock, orders, limit>>

\* a webhook helper that marks the payment failed: it acts when the order exists
PaymentFailureFind(s, op, field, ref) ==
  /\ FreeSlot(s)
  /\ nreq' = nreq + 1
  /\ LET o == FindByRef(field, ref)
     IN  IF o # 0
         THEN /\ reqs' = [reqs EXCEPT ![s] = PaymentSlot(op, o, ref, "failed", NoRef, 0)]
              /\ UNCHANGED resp
         ELSE /\ Reply(op, o, "failed", ref, "received")
              /\ UNCHANGED reqs
  /\ UNCHANGED <<catalog, carts, stock, orders, limit>>

handleStripePaymentSuccessFind(s, ref) ==
  PaymentSuccessFind(s, "handleStripePaymentSuccess", "paymentIntentId", ref, ref)

handleStripePaymentSuccessSave(s) ==
  UpdatePaymentStatusSave(s, "handleStripePaymentSuccess", "received")

handleStripePaymentFailureFind(s, ref) ==
  PaymentFailureFind(s, "handleStripePaymentFailure", "paymentIntentId", ref)

handleStripePaymentFailureSave(s) ==
  UpdatePaymentStatusSave(s, "handleStripePaymentFailure", "received")

handleRazorpayPaymentSuccessFind(s, orderRef, paymentRef) ==
  PaymentSuccessFind(s, "handleRazorpayPaymentSuccess", "transactionId", orderRef, paymentRef)

handleRazorpayPaymentSuccessSave(s) ==
  UpdatePaymentStatusSave(s, "handleRazorpayPaymentSuccess", "received")

handleRazorpayPaymentFailureFind(s, orderRef) ==
  PaymentFailureFind(s, "handleRazorpayPaymentFailure", "transactionId", orderRef)

handleRazorpayPaymentFailureSave(s) ==
  UpdatePaymentStatusSave(s, "handleRazorpayPaymentFailure", "received")

----------------------------------------------------------------------------
(* Cart handlers.  The response names the product of the request in target. *)

\* the checks of addToCart and updateCartItem on the product they read
ProductCheck(productId, quantity) ==
  IF productId \notin Products THEN "NotFoundError"
  ELSE IF ~findById(productId).isActive THEN "ValidationError"
  ELSE IF findById(productId).stock < quantity THEN "InsufficientStockError"
  ELSE "ok"

\* addToCart: the second stock check, against the line found in the cart
ExceedsStock(cart, product, productId, quantity) ==
  LET k == findIndex(cart.items, productId)
  IN  product.stock < (IF k > 0 THEN cart.items[k].quantity + quantity ELSE quantity)

\* validateAddToCart and validateUpdateCartItem: body('quantity').isInt({min: 1, max: 99})
ValidQuantity(quantity) == quantity >= 1 /\ quantity <= MaxQuantity

\* validateAddToCart, then addToCart: Product.findById and the checks on the product
AddToCartStart(s, u, productId, quantity) ==
  /\ FreeSlot(s)
  /\ nreq' = nreq + 1
  /\ IF ~ValidQuantity(quantity)
     THEN /\ Reply("addToCart", 0, productId, NoRef, "ValidationError")
          /\ UNCHANGED reqs
     ELSE IF ProductCheck(productId, quantity) # "ok"
     THEN /\ Reply("addToCart", 0, productId, NoRef, ProductCheck(productId, quantity))
          /\ UNCHANGED reqs
     ELSE /\ reqs' = [reqs EXCEPT ![s] =
                 [Idle EXCEPT !.op = "addToCart", !.pc = "findCart", !.user = u,
                              !.target = productId,
                              !.items = <<Item(productId, quantity)>>,
                              !.product = findById(productId)]]
          /\ UNCHANGED resp
  /\ UNCHANGED <<catalog, carts, stock, orders, limit>>

\* Cart.findOrCreateCart: findByUser; a cart found goes through the second
\* stock check, a user without a cart gets one created
AddToCartFindCart(s) ==
  /\ reqs[s].op = "addToCart" /\ reqs[s].pc = "findCart"
  /\ LET r == reqs[s]
         item == r.items[1]
     IN  IF ~carts[r.user].exists
         THEN /\ reqs' = [reqs EXCEPT ![s] = [r EXCEPT !.pc = "createCart"]]
              /\ UNCHANGED resp
         ELSE IF ExceedsStock(findByUser(r.user), r.product, item.product, item.quantity)
         THEN /\ reqs' = [reqs EXCEPT ![s] = Idle]
              /\ Reply("addToCart", 0, item.product, NoRef, "InsufficientStockError")
         ELSE /\ reqs' = [reqs EXCEPT ![s] =
                     [r EXCEPT !.pc = "save", !.cart = findByUser(r.user)]]
              /\ UNCHANGED resp
  /\ UNCHANGED <<catalog, carts, stock, orders, nreq, limit>>

\* Cart.findOrCreateCart: the save of the new cart; the user index is unique
AddToCartCreateCart(s) ==
  /\ reqs[s].op = "addToCart" /\ reqs[s].pc = "createCart"
  /\ LET r == reqs[s]
     IN  IF carts[r.user].exists
         THEN /\ reqs' = [reqs EXCEPT ![s] = Idle]
              /\ Reply("addToCart", 0, r.items[1].product, NoRef, "DuplicateKeyError")
              /\ UNCHANGED carts
         ELSE /\ carts' = [carts EXCEPT ![r.user] = EmptyCart]
              /\ reqs' = [reqs EXCEPT ![s] = [r EXCEPT !.pc = "save", !.cart = EmptyCart]]
              /\ UNCHANGED resp
  /\ UNCHANGED <<catalog, stock, orders, nreq, limit>>

\* the save of a cart handler's copy, and the response
CartSave(s, op, new) ==
  /\ LET r == reqs[s]
     IN  IF VersionError(carts[r.user], r.cart, new)
         THEN /\ Reply(op, 0, r.target, NoRef, "VersionError")
              /\ UNCHANGED carts
         ELSE /\ carts' = [carts EXCEPT ![r.user] = SaveCart(@, r.cart, new)]
              /\ Reply(op, 0, r.target, NoRef, "ok")
  /\ reqs' = [reqs EXCEPT ![s] = Idle]
  /\ UNCHANGED <<catalog, stock, orders, nreq, limit>>

\* cart.addItem(productId, quantity, product.price): the save
AddToCartSave(s) ==
  /\ reqs[s].op = "addToCart" /\ reqs[s].pc = "save"
  /\ CartSave(s, "addToCart",
              addItem(reqs[s].cart, reqs[s].items[1].product, reqs[s].items[1].quantity,
                      reqs[s].product.price))

\* validateUpdateCartItem, then updateCartItem: Cart.findByUser.  The handler's
\* own branches for a negative quantity and for quantity 0 (cart.removeItem)
\* come after the validator, which lets neither through
UpdateCartItemFind(s, u, productId, quantity) ==
  /\ FreeSlot(s)
  /\ nreq' = nreq + 1
  /\ IF ~ValidQuantity(quantity)
     THEN /\ Reply("updateCartItem", 0, productId, NoRef, "ValidationError")
          /\ UNCHANGED reqs
     ELSE IF ~carts[u].exists
     THEN /\ Reply("updateCartItem", 0, productId, NoRef, "NotFoundError")
          /\ UNCHANGED reqs
     ELSE /\ reqs' = [reqs EXCEPT ![s] =
                 [Idle EXCEPT !.op = "updateCartItem", !.pc = "product", !.user = u,
                              !.target = productId,
                              !.items = <<Item(productId, quantity)>>,
                              !.cart = findByUser(u)]]
          /\ UNCHANGED resp
  /\ UNCHANGED <<catalog, carts, stock, orders, limit>>

\* updateCartItem: Product.findById and its checks, then
\* cart.updateItemQuantity up to its save
UpdateCartItemProduct(s) ==
  /\ reqs[s].op = "updateCartItem" /\ reqs[s].pc = "product"
  /\ LET r == reqs[s]
         item == r.items[1]
         k == findIndex(r.cart.items, item.product)
     IN  IF ProductCheck(item.product, item.quantity) # "ok"
         THEN /\ reqs' = [reqs EXCEPT ![s] = Idle]
              /\ Reply("updateCartItem", 0, item.product, NoRef,
                       ProductCheck(item.product, item.quantity))
         ELSE IF k = 0
         THEN /\ reqs' = [reqs EXCEPT ![s] = Idle]
              /\ Reply("updateCartItem", 0, item.product, NoRef, "Error")
         ELSE /\ reqs' = [reqs EXCEPT ![s] = [r EXCEPT !.pc = "save", !.i = k]]
              /\ UNCHANGED resp
  /\ UNCHANGED <<catalog, carts, stock, orders, nreq, limit>>

UpdateCartItemSave(s) ==
  /\ reqs[s].op = "updateCartItem" /\ reqs[s].pc = "save"
  /\ CartSave(s, "updateCartItem",
              updateItemQuantity(reqs[s].cart, reqs[s].i, reqs[s].items[1].quantity))

\* removeFromCart: Cart.findByUser, then cart.removeItem up to its save
RemoveFromCartFind(s, u, productId) ==
  /\ FreeSlot(s)
  /\ nreq' = nreq + 1
  /\ IF ~carts[u].exists
     THEN /\ Reply("removeFromCart", 0, productId, NoRef, "NotFoundError")
          /\ UNCHANGED reqs
     ELSE IF findIndex(findByUser(u).items, productId) = 0
     THEN /\ Reply("removeFromCart", 0, productId, NoRef, "Error")
          /\ UNCHANGED reqs
     ELSE /\ reqs' = [reqs EXCEPT ![s] =
                 [Idle EXCEPT !.op = "removeFromCart", !.pc = "save", !.user = u,
                              !.target = productId, !.cart = findByUser(u),
                              !.i = findIndex(findByUser(u).items, productId)]]
          /\ UNCHANGED resp
  /\ UNCHANGED <<catalog, carts, stock, orders, limit>>

RemoveFromCartSave(s) ==
  /\ reqs[s].op = "removeFromCart" /\ reqs[s].pc = "save"
  /\ CartSave(s, "removeFromCart", removeItem(reqs[s].cart, reqs[s].i))

\* clearCart: Cart.findByUser
ClearCartFind(s, u) ==
  /\ FreeSlot(s)
  /\ nreq' = nreq + 1
  /\ IF ~carts[u].exists
     THEN /\ Reply("clearCart", 0, "", NoRef, "NotFoundError")
          /\ UNCHANGED reqs
     ELSE /\ reqs' = [reqs EXCEPT ![s] =
                 [Idle EXCEPT !.op = "clearCart", !.pc = "save", !.user = u,
                              !.cart = findByUser(u)]]
          /\ UNCHANGED resp
  /\ UNCHANGED <<catalog, carts, stock, orders, limit>>

\* cart.clearCart(): the save
ClearCartSave(s) ==
  /\ reqs[s].op = "clearCart" /\ reqs[s].pc = "save"
  /\ CartSave(s, "clearCart", clearCartDoc(reqs[s].cart))

\* validateCart: Cart.findByUser; no cart and an empty cart are answered at once
\* (the save of an unchanged empty cart writes no item and no total)
ValidateCartFind(s, u) ==
  /\ FreeSlot(s)
  /\ nreq' = nreq + 1
  /\ IF ~carts[u].exists \/ carts[u].items = <<>>
     THEN /\ Reply("validateCart", 0, "", NoRef, "valid")
          /\ UNCHANGED reqs
     ELSE /\ reqs' = [reqs EXCEPT ![s] =
                 [Idle EXCEPT !.op = "validateCart", !.pc = "item", !.user = u,
                              !.cart = findByUser(u), !.doc = NoOrder, !.i = 1]]
          /\ UNCHANGED resp
  /\ UNCHANGED <<catalog, carts, stock, orders, limit>>

\* cart.validateItems: one pass of the loop, Product.findById(item.product):
\* a problem is recorded, or the price of the line is refreshed; with
\* problems recorded the loop ends without a save
ValidateCartItem(s) ==
  /\ reqs[s].op = "validateCart" /\ reqs[s].pc = "item"
  /\ LET r == reqs[s]
         item == r.cart.items[r.i]
         p == item.product._id
         bad == ProductCheck(p, item.quantity) # "ok"
         errors == r.errors + (IF bad THEN 1 ELSE 0)
         last == r.i = Len(r.cart.items)
     IN  IF last /\ errors > 0
         THEN /\ reqs' = [reqs EXCEPT ![s] = Idle]
              /\ Reply("validateCart", 0, "", NoRef, "invalid")
         ELSE /\ reqs' = [reqs EXCEPT ![s] =
                     [r EXCEPT !.lines = IF r.i = 1 THEN r.cart.items ELSE @,
                               !.cart = IF bad THEN @
                                        ELSE [@ EXCEPT !.items[r.i].price = findById(p).price],
                               !.errors = errors,
                               !.pc = IF last THEN "save" ELSE "item",
                               !.i = IF last THEN 0 ELSE r.i + 1]]
              /\ UNCHANGED resp
  /\ UNCHANGED <<catalog, carts, stock, orders, nreq, limit>>

\* cart.validateItems: calculateTotals and the save; lines holds the items as read
ValidateCartSave(s) ==
  /\ reqs[s].op = "validateCart" /\ reqs[s].pc = "save"
  /\ LET r == reqs[s]
         old == [r.cart EXCEPT !.items = r.lines]
         new == calculateTotals(r.cart)
     IN  IF VersionError(carts[r.user], old, new)
         THEN /\ Reply("validateCart", 0, "", NoRef, "VersionError")
              /\ UNCHANGED carts
         ELSE /\ carts' = [carts EXCEPT ![r.user] = SaveCart(@, old, new)]
              /\ Reply("validateCart", 0, "", NoRef, "valid")
  /\ reqs' = [reqs EXCEPT ![s] = Idle]
  /\ UNCHANGED <<catalog, stock, orders, nreq, limit>>

----------------------------------------------------------------------------
(* Product administration *)

\* updateProduct with a new price: the findById of the handler decides nothing
\* for a product that exists, Product.findByIdAndUpdate writes the price
UpdateProduct(s, p, price) ==
  /\ FreeSlot(s)
  /\ p \in Products
  /\ nreq' = nreq + 1
  /\ catalog' = [catalog EXCEPT ![p].price = price]
  /\ Reply("updateProduct", 0, p, NoRef, "ok")
  /\ UNCHANGED <<carts, stock, orders, reqs, limit>>

\* deleteProduct: Product.findByIdAndUpdate(id, {isActive: false})
DeleteProduct(s, p) ==
  /\ FreeSlot(s)
  /\ p \in Products
  /\ nreq' = nreq + 1
  /\ catalog' = [catalog EXCEPT ![p].isActive = FALSE]
  /\ Reply("deleteProduct", 0, p, NoRef, "ok")
  /\ UNCHANGED <<carts, stock, orders, reqs, limit>>

----------------------------------------------------------------------------
(* Specifications *)

AllIdle == \A s \in Slots : ~Busy(s)

\* order creation, cancellation and the admin status update: the handlers that
\* touch stock or decide whether it is restored
NextStock ==
  \/ \E s \in Slots, items \in ItemLists : CreateOrderStart(s, "u1", items)
  \/ \E s \in Slots : CreateOrderCheck(s)
  \/ \E s \in Slots : CreateOrderInsert(s)
  \/ \E s \in Slots : CreateOrderDecrement(s)
  \/ \E s \in Slots : CreateOrderFindCart(s)
  \/ \E s \in Slots, o \in OrderIds, status \in Statuses : UpdateOrderStatusRead(s, o, status)
  \/ \E s \in Slots : UpdateOrderStatusSave(s)
  \/ \E s \in Slots, o \in OrderIds : CancelOrderRead(s, o)
  \/ \E s \in Slots : CancelOrderSave(s)
  \/ \E s \in Slots : CancelOrderRestore(s)

InitStockSpec == InitStore /\ catalog = DefaultCatalog /\ limit = StockRequests

SpecStock == InitStockSpec /\ [][NextStock]_vars

\* the order requests of the status and payment specifications: one line, one unit
SingleItem == {<<Item("p1", 1)>>}

\* the references a payment request may name: those of the orders the store
\* may hold, whether or not the order exists or has the reference stored
AllOrderIds == 1..MaxOrders

\* the order status machine: creation, admin status update, cancellation,
\* tracking number
NextStatus ==
  \/ \E s \in Slots, items \in SingleItem : CreateOrderStart(s, "u1", items)
  \/ \E s \in Slots : CreateOrderCheck(s)
  \/ \E s \in Slots : CreateOrderInsert(s)
  \/ \E s \in Slots : CreateOrderDecrement(s)
  \/ \E s \in Slots : CreateOrderFindCart(s)
  \/ \E s \in Slots, o \in OrderIds, status \in Statuses : UpdateOrderStatusRead(s, o, status)
  \/ \E s \in Slots : UpdateOrderStatusSave(s)
  \/ \E s \in Slots, o \in OrderIds : CancelOrderRead(s, o)
  \/ \E s \in Slots : CancelOrderSave(s)
  \/ \E s \in Slots : CancelOrderRestore(s)
  \/ \E s \in Slots, o \in OrderIds : AddTrackingNumberRead(s, o)
  \/ \E s \in Slots : AddTrackingNumberSave(s)

\* payment reconciliation
NextPayment ==
  \/ \E s \in Slots, o \in OrderIds : \E amount \in {orders[o].totalAmount, 1} :
        CreateStripePaymentIntentRead(s, o, amount)
  \/ \E s \in Slots : CreateStripePaymentIntentSave(s)
  \/ \E s \in Slots, o \in OrderIds : \E amount \in {orders[o].totalAmount, 1} :
        CreateRazorpayOrderRead(s, o, amount)
  \/ \E s \in Slots : CreateRazorpayOrderSave(s)
  \/ \E s \in Slots, o \in AllOrderIds, succeeded \in BOOLEAN :
        ConfirmStripePaymentFind(s, PaymentIntentId(o), succeeded)
  \/ \E s \in Slots : ConfirmStripePaymentSave(s)
  \/ \E s \in Slots, o \in AllOrderIds, captured \in BOOLEAN :
        VerifyRazorpayPaymentFind(s, RazorpayOrderId(o), RazorpayPaymentId(o), captured)
  \/ \E s \in Slots : VerifyRazorpayPaymentSave(s)
  \/ \E s \in Slots, o \in AllOrderIds : handleStripePaymentSuccessFind(s, PaymentIntentId(o))
  \/ \E s \in Slots : handleStripePaymentSuccessSave(s)
  \/ \E s \in Slots, o \in AllOrderIds : handleStripePaymentFailureFind(s, PaymentIntentId(o))
  \/ \E s \in Slots : handleStripePaymentFailureSave(s)
  \/ \E s \in Slots, o \in AllOrderIds :
        handleRazorpayPaymentSuccessFind(s, RazorpayOrderId(o), RazorpayPaymentId(o))
  \/ \E s \in Slots : handleRazorpayPaymentSuccessSave(s)
  \/ \E s \in Slots, o \in AllOrderIds : handleRazorpayPaymentFailureFind(s, RazorpayOrderId(o))
  \/ \E s \in Slots : handleRazorpayPaymentFailureSave(s)

InitStatus == InitStore /\ catalog = DefaultCatalog /\ limit = MaxRequests

SpecStatus == InitStatus /\ [][NextStatus]_vars

Next == NextStatus \/ NextPayment

Init == InitStore /\ catalog = DefaultCatalog /\ limit = MaxRequests

Spec == Init /\ [][Next]_vars

\* one order is created and cancelled: the first request creates it, the
\* second cancels it, and the two may overlap
NextRoundTrip ==
  \/ \E s \in Slots, items \in ItemLists : nreq = 0 /\ CreateOrderStart(s, "u1", items)
  \/ \E s \in Slots : CreateOrderCheck(s)
  \/ \E s \in Slots : CreateOrderInsert(s)
  \/ \E s \in Slots : CreateOrderDecrement(s)
  \/ \E s \in Slots : CreateOrderFindCart(s)
  \/ \E s \in Slots, o \in OrderIds : CancelOrderRead(s, o)
  \/ \E s \in Slots : CancelOrderSave(s)
  \/ \E s \in Slots : CancelOrderRestore(s)

InitRoundTrip == InitStore /\ catalog = DefaultCatalog /\ limit = 2

SpecRoundTrip == InitRoundTrip /\ [][NextRoundTrip]_vars

\* one order and its Stripe payment: the order is created first, then payment
\* intent, confirmations, failure webhooks, admin status updates and
\* cancellations arrive in any order and may overlap
NextPaymentFlow ==
  \/ \E s \in Slots, items \in SingleItem : nreq = 0 /\ CreateOrderStart(s, "u1", items)
  \/ \E s \in Slots : CreateOrderCheck(s)
  \/ \E s \in Slots : CreateOrderInsert(s)
  \/ \E s \in Slots : CreateOrderDecrement(s)
  \/ \E s \in Slots : CreateOrderFindCart(s)
  \/ \E s \in Slots, o \in OrderIds : CreateStripePaymentIntentRead(s, o, orders[o].totalAmount)
  \/ \E s \in Slots : CreateStripePaymentIntentSave(s)
  \/ \E s \in Slots, o \in OrderIds : ConfirmStripePaymentFind(s, PaymentIntentId(o), TRUE)
  \/ \E s \in Slots : ConfirmStripePaymentSave(s)
  \/ \E s \in Slots, o \in OrderIds : handleStripePaymentFailureFind(s, PaymentIntentId(o))
  \/ \E s \in Slots : handleStripePaymentFailureSave(s)
  \/ \E s \in Slots, o \in OrderIds, status \in Statuses : UpdateOrderStatusRead(s, o, status)
  \/ \E s \in Slots : UpdateOrderStatusSave(s)
  \/ \E s \in Slots, o \in OrderIds : CancelOrderRead(s, o)
  \/ \E s \in Slots : CancelOrderSave(s)
  \/ \E s \in Slots : CancelOrderRestore(s)

InitPayment == InitStore /\ catalog = DefaultCatalog /\ limit = PaymentRequests

SpecPayment == InitPayment /\ [][NextPaymentFlow]_vars

\* the same requests, fewer of them: an order is paid and cancelled
InitRefund == InitStore /\ catalog = DefaultCatalog /\ limit = RefundRequests

SpecRefund == InitRefund /\ [][NextPaymentFlow]_vars

\* the prices a product of the pricing specification may have
PriceSet == {Paise(999), Rupees(50), Rupees(250), Rupees(300)}

\* pricing: the catalog is any assignment of those prices, and one order is created
NextPricing ==
  \/ \E s \in Slots, items \in ItemLists : nreq = 0 /\ CreateOrderStart(s, "u1", items)
  \/ \E s \in Slots : CreateOrderCheck(s)
  \/ \E s \in Slots : CreateOrderInsert(s)
  \/ \E s \in Slots : CreateOrderDecrement(s)
  \/ \E s \in Slots : CreateOrderFindCart(s)

InitPricing ==
  /\ InitStore
  /\ catalog \in [Products -> {Product(price, TRUE) : price \in PriceSet}]
  /\ limit = 1

SpecPricing == InitPricing /\ [][NextPricing]_vars

\* the item lists of the checkout specification: a product in stock, then one
\* that is missing, may be inactive, or may have run out
CheckoutLists ==
  { <<Item("p1", 2)>>,
    <<Item("p1", 2), Item("p0", 1)>>,
    <<Item("p1", 2), Item("p2", 1)>>,
    <<Item("p2", 1), Item("p1", 2)>> }

\* checkout: users fill their carts and create orders, a product is deleted
NextCheckout ==
  \/ \E s \in Slots, u \in Users, p \in Products : AddToCartStart(s, u, p, 1)
  \/ \E s \in Slots : AddToCartFindCart(s)
  \/ \E s \in Slots : AddToCartCreateCart(s)
  \/ \E s \in Slots : AddToCartSave(s)
  \/ \E s \in Slots : DeleteProduct(s, "p2")
  \/ \E s \in Slots, u \in Users, items \in CheckoutLists : CreateOrderStart(s, u, items)
  \/ \E s \in Slots : CreateOrderCheck(s)
  \/ \E s \in Slots : CreateOrderInsert(s)
  \/ \E s \in Slots : CreateOrderDecrement(s)
  \/ \E s \in Slots : CreateOrderFindCart(s)
  \/ \E s \in Slots : CreateOrderClearCart(s)

InitCheckout == InitStore /\ catalog = DefaultCatalog /\ limit = CheckoutRequests

SpecCheckout == InitCheckout /\ [][NextCheckout]_vars

\* an order is created, then its status and payment are driven while prices
\* change in the catalog and the user fills the cart again
NextFrozen ==
  \/ \E s \in Slots, items \in SingleItem : nreq = 0 /\ CreateOrderStart(s, "u1", items)
  \/ \E s \in Slots : CreateOrderCheck(s)
  \/ \E s \in Slots : CreateOrderInsert(s)
  \/ \E s \in Slots : CreateOrderDecrement(s)
  \/ \E s \in Slots : CreateOrderFindCart(s)
  \/ \E s \in Slots : CreateOrderClearCart(s)
  \/ \E s \in Slots, p \in Products, price \in PriceSet : UpdateProduct(s, p, price)
  \/ \E s \in Slots, p \in Products : AddToCartStart(s, "u1", p, 1)
  \/ \E s \in Slots : AddToCartFindCart(s)
  \/ \E s \in Slots : AddToCartCreateCart(s)
  \/ \E s \in Slots : AddToCartSave(s)
  \/ \E s \in Slots, o \in OrderIds, status \in Statuses : UpdateOrderStatusRead(s, o, status)
  \/ \E s \in Slots : UpdateOrderStatusSave(s)
  \/ \E s \in Slots, o \in OrderIds : CancelOrderRead(s, o)
  \/ \E s \in Slots : CancelOrderSave(s)
  \/ \E s \in Slots : CancelOrderRestore(s)
  \/ \E s \in Slots, o \in OrderIds : AddTrackingNumberRead(s, o)
  \/ \E s \in Slots : AddTrackingNumberSave(s)
  \/ \E s \in Slots, o \in OrderIds : CreateStripePaymentIntentRead(s, o, orders[o].totalAmount)
  \/ \E s \in Slots : CreateStripePaymentIntentSave(s)
  \/ \E s \in Slots, o \in OrderIds : ConfirmStripePaymentFind(s, PaymentIntentId(o), TRUE)
  \/ \E s \in Slots : ConfirmStripePaymentSave(s)
  \/ \E s \in Slots, o \in OrderIds : handleStripePaymentFailureFind(s, PaymentIntentId(o))
  \/ \E s \in Slots : handleStripePaymentFailureSave(s)

InitFrozen == InitStore /\ catalog = DefaultCatalog /\ limit = FrozenRequests

SpecFrozen == InitFrozen /\ [][NextFrozen]_vars

\* the cart operations of the users, while prices change in the catalog.
\* UpdateCartItemSave and RemoveFromCartSave are left out: a cart read by
\* findByUser is populated, findIndex finds no line in it, and the two
\* handlers end with 'Product not found in cart' before their save
NextCart ==
  \/ \E s \in Slots, u \in Users, p \in Products, q \in 1..MaxQty : AddToCartStart(s, u, p, q)
  \/ \E s \in Slots : AddToCartFindCart(s)
  \/ \E s \in Slots : AddToCartCreateCart(s)
  \/ \E s \in Slots : AddToCartSave(s)
  \/ \E s \in Slots, u \in Users, p \in Products, q \in (-1)..MaxQty :
        UpdateCartItemFind(s, u, p, q)
  \/ \E s \in Slots : UpdateCartItemProduct(s)
  \/ \E s \in Slots, u \in Users, p \in Products : RemoveFromCartFind(s, u, p)
  \/ \E s \in Slots, u \in Users : ClearCartFind(s, u)
  \/ \E s \in Slots : ClearCartSave(s)
  \/ \E s \in Slots, u \in Users : ValidateCartFind(s, u)
  \/ \E s \in Slots : ValidateCartItem(s)
  \/ \E s \in Slots : ValidateCartSave(s)
  \/ \E s \in Slots, p \in Products, price \in PriceSet : UpdateProduct(s, p, price)

InitCart == InitStore /\ catalog = DefaultCatalog /\ limit = CartRequests

SpecCart == InitCart /\ [][NextCart]_vars

\* adds to the carts of products whose stock refuses no request: quantities
\* within the validator's range, together above it, and one above it alone
AmpleStock == 2 * MaxQuantity + 2

CapQuantities == {1, 60, MaxQuantity + 1}

NextCap ==
  \/ \E s \in Slots, u \in Users, p \in Products, q \in CapQuantities :
        AddToCartStart(s, u, p, q)
  \/ \E s \in Slots : AddToCartFindCart(s)
  \/ \E s \in Slots : AddToCartCreateCart(s)
  \/ \E s \in Slots : AddToCartSave(s)
  \/ \E s \in Slots, u \in Users : ClearCartFind(s, u)
  \/ \E s \in Slots : ClearCartSave(s)

InitCap ==
  /\ stock = [p \in Products |-> AmpleStock]
  /\ catalog = DefaultCatalog
  /\ carts = [u \in Users |-> NoCart]
  /\ orders = <<>>
  /\ reqs = [s \in Slots |-> Idle]
  /\ nreq = 0
  /\ limit = CapRequests
  /\ resp = Response("none", 0, "", NoRef, "none")

SpecCap == InitCap /\ [][NextCap]_vars

\* validation of a cart that holds one line of each product, while products
\* are repriced and withdrawn.  The cart is the one two adds leave behind
FilledCart ==
  LET first == SaveCart(EmptyCart, EmptyCart,
                        addItem(EmptyCart, "p1", 1, DefaultCatalog["p1"].price))
  IN  SaveCart(first, populate(first),
               addItem(populate(first), "p2", 1, DefaultCatalog["p2"].price))

NextValidate ==
  \/ \E s \in Slots, u \in Users : ValidateCartFind(s, u)
  \/ \E s \in Slots : ValidateCartItem(s)
  \/ \E s \in Slots : ValidateCartSave(s)
  \/ \E s \in Slots, p \in Products, price \in PriceSet : UpdateProduct(s, p, price)
  \/ \E s \in Slots, p \in Products : DeleteProduct(s, p)

InitValidate ==
  /\ stock = [p \in Products |-> InitStock]
  /\ catalog = DefaultCatalog
  /\ carts = [u \in Users |-> IF u = "u1" THEN FilledCart ELSE NoCart]
  /\ orders = <<>>
  /\ reqs = [s \in Slots |-> Idle]
  /\ nreq = 0
  /\ limit = ValidateRequests
  /\ resp = Response("none", 0, "", NoRef, "none")

SpecValidate == InitValidate /\ [][NextValidate]_vars

\* the requests that write the status and the history of one order, on an
\* order that was placed and has a Stripe payment intent
PlacedOrder ==
  [NewOrder("u1", <<OrderItem("p1", 1, DefaultCatalog["p1"].price)>>)
     EXCEPT !.paymentInfo.paymentIntentId = PaymentIntentId(1)]

NextHistory ==
  \/ \E s \in Slots, o \in OrderIds, status \in Statuses : UpdateOrderStatusRead(s, o, status)
  \/ \E s \in Slots : UpdateOrderStatusSave(s)
  \/ \E s \in Slots, o \in OrderIds : CancelOrderRead(s, o)
  \/ \E s \in Slots : CancelOrderSave(s)
  \/ \E s \in Slots : CancelOrderRestore(s)
  \/ \E s \in Slots, o \in OrderIds, succeeded \in BOOLEAN :
        ConfirmStripePaymentFind(s, PaymentIntentId(o), succeeded)
  \/ \E s \in Slots : ConfirmStripePaymentSave(s)
  \/ \E s \in Slots, o \in OrderIds : handleStripePaymentSuccessFind(s, PaymentIntentId(o))
  \/ \E s \in Slots : handleStripePaymentSuccessSave(s)
  \/ \E s \in Slots, o \in OrderIds : handleStripePaymentFailureFind(s, PaymentIntentId(o))
  \/ \E s \in Slots : handleStripePaymentFailureSave(s)

InitHistory ==
  /\ stock = [p \in Products |-> IF p = "p1" THEN InitStock - 1 ELSE InitStock]
  /\ catalog = DefaultCatalog
  /\ carts = [u \in Users |-> NoCart]
  /\ orders = <<PlacedOrder>>
  /\ reqs = [s \in Slots |-> Idle]
  /\ nreq = 0
  /\ limit = HistoryRequests
  /\ resp = Response("none", 0, "", NoRef, "none")

SpecHistory == InitHistory /\ [][NextHistory]_vars

----------------------------------------------------------------------------
(* Properties *)

\* C1: in every reachable state every product's stock is >= 0, whatever the
\* order creations and cancellations, also for an order that names a product
\* in more than one line.
C1_StockNeverNegative == \A p \in Products : stock[p] >= 0

NoDuplicateLines(items) ==
  \A j, k \in 1..Len(items) : items[j].product = items[k].product => j = k

PassedChecks(s) ==
  reqs[s].op = "createOrder" /\ reqs[s].pc = "create" /\ NoDuplicateLines(reqs[s].items)

\* C2: the quantities of concurrent successful reservations on one product
\* never sum to more than the stock available: two order creations that have
\* both passed the stock check of a product, and have not yet decremented it,
\* together ask for no more than its stock.
C2_ReservationsWithinStock ==
  \A s1, s2 \in Slots : \A p \in Products :
    (s1 # s2 /\ PassedChecks(s1) /\ PassedChecks(s2)
       /\ QtyOf(reqs[s1].items, p) > 0 /\ QtyOf(reqs[s2].items, p) > 0)
      => QtyOf(reqs[s1].items, p) + QtyOf(reqs[s2].items, p) <= stock[p]

ConfirmOps ==
  {"confirmStripePayment", "verifyRazorpayPayment",
   "handleStripePaymentSuccess", "handleRazorpayPaymentSuccess"}

\* a confirmation naming ref has been saved: it left its transaction id on the order
ConfirmedBefore(ref) ==
  \E o \in OrderIds :
    \/ ref = PaymentIntentId(o) /\ orders[o].paymentInfo.transactionId = PaymentIntentId(o)
    \/ ref = RazorpayOrderId(o) /\ orders[o].paymentInfo.transactionId = RazorpayPaymentId(o)

\* C3: a payment confirmation naming a provider reference that was confirmed
\* before is a successful no-op: when it is answered on arrival the answer
\* is a success and no order changes, and when it saves no order changes.
C3_SecondConfirmationIsNoOp ==
  [][ /\ (nreq' = nreq + 1 /\ reqs' = reqs /\ resp'.op \in ConfirmOps
            /\ resp'.target = "succeeded" /\ ConfirmedBefore(resp'.ref))
         => (resp'.result \in {"ok", "received"} /\ orders' = orders)
      /\ \A s \in Slots :
           (reqs[s].op \in ConfirmOps /\ reqs[s].pc = "save" /\ reqs'[s] = Idle
              /\ ConfirmedBefore(reqs[s].ref))
           => orders' = orders ]_vars

\* C4: for an order created and then cancelled with nothing else touching the
\* products, every product's stock after the cancellation equals its stock
\* before the creation: once both requests are answered and the order is
\* cancelled, the stock is the initial stock again.
C4_CancelRestoresStock ==
  (AllIdle /\ Len(orders) = 1 /\ orders[1].status = "cancelled")
    => \A p \in Products : stock[p] = InitStock

C4_Witness ==
  /\ AllIdle /\ resp.op = "cancelOrder" /\ resp.result = "ok"
  /\ Len(orders) = 1 /\ Len(orders[1].items) = 2
  /\ QtyOf(orders[1].items, "p1") = 2 /\ QtyOf(orders[1].items, "p2") = 1
  /\ orders[1].status = "cancelled"

\* quantity of product p held by the orders that are not cancelled
HeldByOrders(p) ==
  SumSeq([o \in 1..Len(orders) |->
            IF orders[o].status # "cancelled" THEN QtyOf(orders[o].items, p) ELSE 0])

\* C5: stock is restored if and only if the order becomes cancelled: once the
\* orders are created and one more request (a cancel or an admin status
\* update) has been served, the stock of a product is its initial stock less
\* the quantities of the orders that are not cancelled.
C5_RestoredIffCancelled ==
  (AllIdle /\ nreq = Len(orders) + 1)
    => \A p \in Products : stock[p] = InitStock - HeldByOrders(p)

\* C6: the quantities of a cancelled order are added back once, not twice:
\* when no request is in flight no product holds more than its initial stock.
C6_RestoredAtMostOnce ==
  AllIdle => \A p \in Products : stock[p] <= InitStock

PaymentCompletedEntries(o) ==
  Cardinality({k \in 1..Len(orders[o].statusHistory) :
                 orders[o].statusHistory[k].note = "Payment completed"})

\* C7: over any interleaving of payment callbacks for one order the
\* pending -> confirmed transition is triggered at most once: the status
\* history never holds more than one 'Payment completed' entry.
C7_OnePaymentCompletedEntry ==
  \A o \in OrderIds : PaymentCompletedEntries(o) <= 1

\* the transitions the specification forbids
ForbiddenTargets(from) ==
  CASE from = "delivered" -> {"pending", "confirmed", "processing"}
    [] from = "cancelled" -> {"shipped", "delivered"}
    [] from = "refunded" -> {"pending", "confirmed", "processing"}
    [] OTHER -> {}

\* C8: an admin status update that attempts a forbidden transition fails with
\* the invalid-transition error and leaves the order unchanged: it is answered
\* on arrival with ValidationError, no order changes, and it never goes on to save.
C8_ForbiddenTransitionRejected ==
  [][ /\ (nreq' = nreq + 1 /\ reqs' = reqs /\ resp'.op = "updateOrderStatus"
            /\ resp'.target \in ForbiddenTargets(orders[resp'.o].status))
         => (resp'.result = "ValidationError" /\ orders' = orders)
      /\ \A s \in Slots :
           (~Busy(s) /\ reqs'[s].op = "updateOrderStatus")
           => reqs'[s].target \notin ForbiddenTargets(orders[reqs'[s].o].status) ]_vars

C8_Witness ==
  /\ resp.op = "updateOrderStatus" /\ resp.result = "ValidationError"
  /\ resp.target = "shipped"
  /\ resp.o \in OrderIds /\ orders[resp.o].status = "cancelled"
  /\ Len(orders[resp.o].statusHistory) = 2

TerminalStatuses == {"delivered", "cancelled", "refunded"}

\* C9: delivered, cancelled and refunded are terminal: no step changes the
\* status of an order that is in one of them.
C9_TerminalStatusesStay ==
  [][ \A o \in OrderIds :
        orders[o].status \in TerminalStatuses => orders'[o].status = orders[o].status ]_vars

\* C10: an order enters status cancelled only from pending, confirmed or
\* processing; a shipped order does not become cancelled.
C10_CancelledOnlyFromOpen ==
  [][ \A o \in OrderIds :
        (orders[o].status # "cancelled" /\ orders'[o].status = "cancelled")
          => orders[o].status \in {"pending", "confirmed", "processing"} ]_vars

\* C11: cancel on an order whose status is delivered, cancelled or refunded
\* fails and changes nothing: the request is answered on arrival with
\* ValidationError, no order and no product's stock changes, and it never
\* goes on to the save.
C11_TerminalCancelRejected ==
  [][ /\ (nreq' = nreq + 1 /\ reqs' = reqs /\ resp'.op = "cancelOrder"
            /\ orders[resp'.o].status \in TerminalStatuses)
         => (resp'.result = "ValidationError" /\ orders' = orders /\ stock' = stock)
      /\ \A s \in Slots :
           (~Busy(s) /\ reqs'[s].op = "cancelOrder")
           => orders[reqs'[s].o].status \notin TerminalStatuses ]_vars

C11_Witness ==
  /\ AllIdle /\ resp.op = "cancelOrder" /\ resp.result = "ValidationError"
  /\ resp.o \in OrderIds /\ orders[resp.o].status = "delivered"
  /\ orders[resp.o].cancelledAt = FALSE
  /\ stock["p1"] = InitStock - 1

\* C12: the save of a cancellation that read the order with payment status
\* completed leaves the payment status refunded and the refund amount equal
\* to the paid amount; the save of a cancellation that read any other payment
\* status leaves the payment sub-record as it is stored.
C12_CancelRefundsCompletedPayment ==
  [][ \A s \in Slots :
        (reqs[s].op = "cancelOrder" /\ reqs[s].pc = "save" /\ reqs'[s].pc = "restore")
        => LET o == reqs[s].o
               read == reqs[s].doc
           IN  IF read.paymentInfo.status = "completed"
               THEN /\ orders'[o].paymentInfo.status = "refunded"
                    /\ orders'[o].paymentInfo.refundAmount = read.paymentInfo.amount
               ELSE orders'[o].paymentInfo = orders[o].paymentInfo ]_vars

C12_Witness ==
  /\ AllIdle /\ resp.op = "cancelOrder" /\ resp.result = "ok"
  /\ orders[resp.o].status = "cancelled"
  /\ orders[resp.o].paymentInfo.status = "refunded"
  /\ orders[resp.o].paymentInfo.paidAt > 0
  /\ orders[resp.o].paymentInfo.refundAmount = orders[resp.o].totalAmount
  /\ orders[resp.o].totalAmount = Rupees(105)

\* C13: the save of a successful confirmation that read the order pending
\* (its payment not yet completed) leaves the order confirmed with exactly one
\* more history entry, noted 'Payment completed'; the save of one that read
\* any other status leaves the payment completed with paidAt recorded and the
\* order status and history as they are stored.
C13_ConfirmationEffects ==
  [][ \A s \in Slots :
        (reqs[s].op \in ConfirmOps /\ reqs[s].pc = "save" /\ reqs'[s] = Idle
           /\ reqs[s].doc.paymentInfo.status # "completed")
        => LET o == reqs[s].o
               read == reqs[s].doc
           IN  IF read.status = "pending"
               THEN /\ orders'[o].status = "confirmed"
                    /\ orders'[o].statusHistory =
                         Append(orders[o].statusHistory,
                                HistoryEntry("confirmed", "Payment completed"))
               ELSE /\ orders'[o].paymentInfo.status = "completed"
                    /\ orders'[o].paymentInfo.paidAt > 0
                    /\ orders'[o].status = orders[o].status
                    /\ orders'[o].statusHistory = orders[o].statusHistory ]_vars

\* C14: every persisted order has totalAmount = subtotal + tax + shippingCost
\* - discount rounded to 2 decimal places, also when 10% of the subtotal is
\* not a whole number of paise.
C14_TotalRounded ==
  \A o \in OrderIds :
    orders[o].totalAmount =
      Round2(orders[o].subtotal + orders[o].tax + orders[o].shippingCost
               - orders[o].discount)

CreationFailures == {"NotFoundError", "ValidationError", "InsufficientStockError"}

\* C16: order creation is all-or-nothing: up to the end of its validation
\* loop a creation changes no product's stock, no order and no cart, and a
\* creation that fails for a missing, inactive or short product fails in
\* that loop, whichever line it fails on.
C16_CreationAllOrNothing ==
  [][ \A s \in Slots :
        /\ ( \/ (~Busy(s) /\ reqs'[s].op = "createOrder")
             \/ (reqs[s].op = "createOrder" /\ reqs[s].pc = "check"
                   /\ reqs'[s] # reqs[s]) )
           => (stock' = stock /\ orders' = orders /\ carts' = carts)
        /\ (reqs[s].op = "createOrder" /\ reqs'[s] = Idle
              /\ resp'.result \in CreationFailures)
           => reqs[s].pc = "check" ]_vars

C16_Witness ==
  /\ AllIdle /\ resp.op = "createOrder" /\ resp.result = "InsufficientStockError"
  /\ Len(orders) = 1 /\ orders[1].items[1].product = "p2"
  /\ stock = [p \in Products |-> IF p = "p1" THEN 0 ELSE InitStock - 1]
  /\ carts["u1"].items # <<>>

\* the lines of an order and of a cart as (product, quantity) pairs
OrderLines(items) == [k \in 1..Len(items) |-> <<items[k].product, items[k].quantity>>]

CartLines(items) == [k \in 1..Len(items) |-> <<items[k].product._id, items[k].quantity>>]

\* C17: the line items of a created order are exactly the cart lines of the
\* creating user at creation time: when Order.create stores the order, the
\* user has a cart and the order's (product, quantity) lines are the cart's.
C17_OrderItemsAreCartLines ==
  [][ \A s \in Slots :
        (reqs[s].op = "createOrder" /\ reqs[s].pc = "create"
           /\ reqs'[s].pc = "decrement")
        => /\ carts[reqs[s].user].exists
           /\ OrderLines(orders'[Len(orders')].items) = CartLines(carts[reqs[s].user].items) ]_vars

\* C18: a step of an order creation changes no other user's cart and no
\* stored order, and the step that answers a creation with success leaves the
\* creating user's cart, if the user has one, in existence, and with no items
\* and zero totals when nothing else changed the cart since the creation read it.
C18_CartClearedOthersUntouched ==
  [][ \A s \in Slots :
        (reqs[s].op = "createOrder" /\ reqs'[s] # reqs[s])
        => LET u == reqs[s].user
           IN  /\ \A w \in Users \ {u} : carts'[w] = carts[w]
               /\ \A o \in OrderIds : orders'[o] = orders[o]
               /\ (reqs'[s] = Idle /\ resp'.result = "created" /\ carts[u].exists)
                    => /\ carts'[u].exists
                       /\ populate(carts[u]) = reqs[s].cart
                            => (carts'[u].items = <<>> /\ carts'[u].totalAmount = 0
                                  /\ carts'[u].totalItems = 0) ]_vars

C18_Witness ==
  /\ AllIdle /\ resp.op = "createOrder" /\ resp.result = "created"
  /\ orders[resp.o].user = "u1"
  /\ carts["u1"].exists /\ carts["u1"].items = <<>> /\ carts["u1"].v = 2
  /\ carts["u1"].totalAmount = 0 /\ carts["u1"].totalItems = 0
  /\ carts["u2"].totalItems = 1

\* the lines and the stored amounts of an order
Frozen(d) == <<d.items, d.subtotal, d.tax, d.shippingCost, d.discount, d.totalAmount>>

\* C19: once an order is created its line items (product, name, quantity,
\* unit price, line total) and its stored subtotal, tax, shipping cost,
\* discount and total never change: no step of a price change, a cart
\* mutation, a status update, a cancellation or a payment callback changes them.
C19_OrderAmountsFrozen ==
  [][ \A o \in OrderIds : Frozen(orders'[o]) = Frozen(orders[o]) ]_vars

C19_Witness ==
  /\ AllIdle /\ Len(orders) = 1
  /\ orders[1].status = "cancelled"
  /\ catalog["p1"].price = Rupees(300)
  /\ orders[1].items[1].price = Rupees(50) /\ orders[1].totalAmount = Rupees(105)

\* C20: after any sequence of cart operations no two lines of a cart
\* reference the same product: an add of a product that is in the cart goes
\* to the existing line instead of appending a second one.
C20_NoDuplicateCartLines ==
  \A u \in Users : \A j, k \in 1..Len(carts[u].items) :
    carts[u].items[j].product._id = carts[u].items[k].product._id => j = k

\* the quantity of product p a cart holds, over all its lines
HeldInCart(cart, p) ==
  SumSeq([k \in 1..Len(cart.items) |->
            IF cart.items[k].product._id = p THEN cart.items[k].quantity ELSE 0])

\* C21: no cart line holds more than MaxQuantity of its product; an add that
\* would take the quantity of its product in the cart above MaxQuantity, and
\* an add of more than MaxQuantity to an empty cart, is answered with a
\* failure and leaves the carts as they are
C21_QuantityCap ==
  /\ [](\A u \in Users : \A k \in 1..Len(carts[u].items) :
          carts[u].items[k].quantity <= MaxQuantity)
  /\ [][\A s \in Slots :
          (/\ reqs[s].op = "addToCart" /\ reqs[s].pc = "save"
           /\ reqs'[s] = Idle
           /\ HeldInCart(carts[reqs[s].user], reqs[s].items[1].product)
                + reqs[s].items[1].quantity > MaxQuantity)
          => (carts' = carts /\ resp'.result # "ok")]_vars
  /\ [][(nreq' = nreq + 1 /\ resp' # resp /\ resp'.op = "addToCart"
          /\ resp'.result = "ValidationError")
        => carts' = carts]_vars

\* the first line of a cart that holds product p, 0 when there is none
LineOf(cart, p) ==
  LET hits == {k \in 1..Len(cart.items) : cart.items[k].product._id = p}
  IN  IF hits = {} THEN 0 ELSE CHOOSE k \in hits : \A h \in hits : k <= h

\* C22: an update of a product in the cart to quantity 0 leaves the cart as
\* removeItem of the line of that product leaves it; an update to a negative
\* quantity is answered with a failure and changes no cart, and the method
\* updateItemQuantity itself leaves a cart as it is for a negative quantity
C22_ZeroRemovesNegativeFails ==
  /\ [][\A s \in Slots, u \in Users, p \in Products :
          (UpdateCartItemFind(s, u, p, 0) /\ LineOf(carts[u], p) > 0)
          => carts'[u] = SaveCart(carts[u], findByUser(u),
                                  removeItem(findByUser(u), LineOf(carts[u], p)))]_vars
  /\ [][\A s \in Slots, u \in Users, p \in Products :
          UpdateCartItemFind(s, u, p, -1)
          => (carts' = carts /\ resp'.result # "ok")]_vars
  /\ [](\A u \in Users : \A k \in 1..Len(carts[u].items) :
          updateItemQuantity(carts[u], k, -1) = carts[u])

\* C23: in every stored cart totalItems is the sum of the line quantities and
\* totalAmount the sum of price * quantity over the lines, rounded to 2 decimals
C23_CartTotalsMatchLines ==
  \A u \in Users :
    /\ carts[u].totalItems =
         SumSeq([k \in 1..Len(carts[u].items) |-> carts[u].items[k].quantity])
    /\ carts[u].totalAmount =
         Round2(SumSeq([k \in 1..Len(carts[u].items) |->
                          carts[u].items[k].price * carts[u].items[k].quantity]))

\* the price validateItems holds for line k of the cart it validates: the
\* price it read for a line it checked, the snapshot of a line it refused
PriceHeld(s, k) ==
  IF reqs[s].pc = "item" /\ k = reqs[s].i
  THEN catalog[reqs[s].cart.items[k].product._id].price
  ELSE reqs[s].cart.items[k].price

\* C24: when a validation is answered, with problems or without, every line
\* of the stored cart that passes the checks and whose product still has the
\* price the validation read carries that price as its snapshot
C24_ValidationRefreshesPrices ==
  [][\A s \in Slots :
       (/\ reqs[s].op = "validateCart" /\ reqs'[s] = Idle
        /\ resp'.result \in {"valid", "invalid"}
        /\ Len(carts'[reqs[s].user].items) = Len(reqs[s].cart.items))
       => \A k \in 1..Len(reqs[s].cart.items) :
            LET line == carts'[reqs[s].user].items[k]
                p == line.product._id
            IN  (/\ ProductCheck(p, line.quantity) = "ok"
                 /\ PriceHeld(s, k) = catalog[p].price)
                => line.price = catalog[p].price]_vars

IsPrefix(a, b) == Len(a) <= Len(b) /\ SubSeq(b, 1, Len(a)) = a

\* C25: the status history is append-only: a new order has one entry, for its
\* status; every step keeps the old history as a prefix of the new one and
\* appends at most one entry, exactly one when the status of the order
\* changes and none when it stays
C25_HistoryAppendOnly ==
  [][\A o \in 1..Len(orders') :
       IF o > Len(orders)
       THEN /\ Len(orders'[o].statusHistory) = 1
            /\ orders'[o].statusHistory[1].status = orders'[o].status
       ELSE /\ IsPrefix(orders[o].statusHistory, orders'[o].statusHistory)
            /\ Len(orders'[o].statusHistory) <= Len(orders[o].statusHistory) + 1
            /\ orders'[o].status # orders[o].status
                 => Len(orders'[o].statusHistory) = Len(orders[o].statusHistory) + 1
            /\ orders'[o].status = orders[o].status
                 => orders'[o].statusHistory = orders[o].statusHistory]_vars

\* C26: a payment confirmation (a confirm or verify call, a success webhook)
\* that names a provider reference no order carries is answered with
\* NotFoundError and changes no order
C26_UnknownReferenceNotFound ==
  [][(/\ resp' # resp
      /\ resp'.op \in ConfirmOps
      /\ resp'.target = "succeeded"
      /\ resp'.o = 0)
     => (resp'.result = "NotFoundError" /\ orders' = orders)]_vars

\* C27: an order becomes refunded only from pending, confirmed or processing,
\* and an order whose status is refunded has payment status refunded
C27_RefundedOnlyAfterRefund ==
  /\ [][\A o \in 1..Len(orders) :
          (orders'[o].status = "refunded" /\ orders[o].status # "refunded")
          => orders[o].status \in {"pending", "confirmed", "processing"}]_vars
  /\ [](\A o \in 1..Len(orders) :
          orders[o].status = "refunded" => orders[o].paymentInfo.status = "refunded")

\* C28: no order is cancelled while its payment status is completed
C28_NeverCancelledAndPaid ==
  \A o \in 1..Len(orders) :
    ~(orders[o].status = "cancelled" /\ orders[o].paymentInfo.status = "completed")

\* C29: stock is conserved: in every state with no request in flight (the
\* states between the writes of one handler are left aside), the stock of a
\* product plus its quantities in the orders that are not cancelled is its
\* initial stock
C29_StockConserved ==
  AllIdle => \A p \in Products : stock[p] + HeldByOrders(p) = InitStock

\* C30: the last entry of an order's status history names the status of the
\* order, in every state, however status updates, cancellations and payment
\* confirmations of the order overlap
C30_LastEntryIsStatus ==
  \A o \in 1..Len(orders) :
    /\ Len(orders[o].statusHistory) >= 1
    /\ orders[o].statusHistory[Len(orders[o].statusHistory)].status = orders[o].status

\* two status updates that both read the order while it was pending have
\* both written: the history holds both entries and ends with the status
C30_Witness ==
  \E o \in 1..Len(orders) :
    /\ Len(orders[o].statusHistory) = 3
    /\ orders[o].statusHistory[2].note = "Status changed from pending to processing"
    /\ orders[o].statusHistory[3].note = "Status changed from pending to shipped"
    /\ orders[o].status = "shipped"
    /\ AllIdle

====
